---- MODULE Spec2Model ----
(***************************************************************************)
(* Model of the payment engine: an Engine owning a transaction store, an   *)
(* account store and a locked-account store, fed one TxRow at a time       *)
(* through Engine::process_row.  Decimal amounts are modelled as integers  *)
(* (one unit = the smallest amount step of the stream).                    *)
(***************************************************************************)
EXTENDS Integers, FiniteSets, Sequences, TLC

\* ------------------------------------------------------------------ bounds
MaxClient == 2
MaxTx == 2
MaxAmount == 2
MaxBalance == 3

ClientIds == 1..MaxClient
TxIds == 1..MaxTx
\* the amounts of the records: the smallest amount and a larger one
Amounts == {1, MaxAmount}

\* ------------------------------------------------------------ Option<T>
None == <<>>
Some(x) == <<x>>
is_none(o) == o = <<>>
unwrap(o) == o[1]
unwrap_or(o, d) == IF o = <<>> THEN d ELSE o[1]

\* ------------------------------------------------------------ models
TransactionType == {"Deposit", "Withdrawal", "Resolve", "Dispute", "Chargeback"}

TxRow == [tx_type : TransactionType, client_id : ClientIds, tx_id : TxIds,
          amount : {None} \cup {Some(a) : a \in Amounts}]

AccountData(available, held) == [available |-> available, held |-> held]

Transaction(amount, disputed) == [amount |-> amount, disputed |-> disputed]

\* ------------------------------------------------------------ results
Ok == [kind |-> "Ok", id |-> 0]
Err(kind, id) == [kind |-> kind, id |-> id]

ProcessingError == {"AccountNotFound", "AccountLocked", "InsufficientFunds",
                    "DuplicateTx", "TxAlreadyDisputed", "TxNotFound",
                    "TxNotDisputed", "AmountNotSpecified"}

\* ------------------------------------------------------------ stores
\* TransactionStore: transactions is a map tx_id -> amount (a function whose
\* DOMAIN is the set of recorded ids), disputed_transactions a set of ids.
TransactionStore_find_by_id(transactions, disputed_transactions, id) ==
    IF id \in DOMAIN transactions
    THEN Some(Transaction(transactions[id], id \in disputed_transactions))
    ELSE None

\* mutant: HashMap::insert without the contains_key test
insert_tx_overwrite(transactions, id, amount) ==
    [result |-> "Ok",
     transactions |-> [t \in (DOMAIN transactions) \cup {id} |->
                          IF t = id THEN amount ELSE transactions[t]]]

insert_tx(transactions, id, amount) ==
    IF id \in DOMAIN transactions
    THEN [result |-> "AlreadyExists", transactions |-> transactions]
    ELSE [result |-> "Ok",
          transactions |-> [t \in (DOMAIN transactions) \cup {id} |->
                               IF t = id THEN amount ELSE transactions[t]]]

dispute_transaction(disputed_transactions, id) == disputed_transactions \cup {id}

\* mutant: resolving a transaction leaves it in the set of disputed ones
resolve_transaction_keep(disputed_transactions, id) == disputed_transactions

resolve_transaction(disputed_transactions, id) ==
    IF id \in disputed_transactions
    THEN disputed_transactions \ {id}
    ELSE disputed_transactions

\* AccountStore: accounts is a map client_id -> AccountData.
AccountStore_find_by_id(accounts, id) ==
    IF id \in DOMAIN accounts THEN Some(accounts[id]) ELSE None

\* mutant: storing an account drops the accounts of the other clients
add_or_update_account_clear(accounts, id, data) == [c \in {id} |-> data]

add_or_update_account(accounts, id, data) ==
    [c \in (DOMAIN accounts) \cup {id} |-> IF c = id THEN data ELSE accounts[c]]

\* LockedAccountStore: locked_accounts is a set of client ids.
\* mutant: locking a client replaces the set of locked clients
lock_account_replace(locked_accounts, id) == {id}

lock_account(locked_accounts, id) == locked_accounts \cup {id}

is_account_locked(locked_accounts, id) == id \in locked_accounts

\* ------------------------------------------------------------ engine
\* An engine value e has the fields accounts, transactions,
\* disputed_transactions and locked_accounts; every handler returns the
\* engine after the call together with the Result it returns.
Engine_new ==
    [accounts |-> <<>>, transactions |-> <<>>,
     disputed_transactions |-> {}, locked_accounts |-> {}]

Return(e, r) == [engine |-> e, result |-> r]

\* mutant: the deposit sets available to the amount
process_deposit_replace(e, tx_id, client_id, amount) ==
    LET ins == insert_tx(e.transactions, tx_id, amount) IN
    IF ins.result = "AlreadyExists"
    THEN Return(e, Err("DuplicateTx", tx_id))
    ELSE LET e1 == [e EXCEPT !.transactions = ins.transactions]
             account == unwrap_or(AccountStore_find_by_id(e1.accounts, client_id),
                                  AccountData(0, 0))
             account2 == [account EXCEPT !.available = amount]
         IN  Return([e1 EXCEPT !.accounts =
                         add_or_update_account(@, client_id, account2)], Ok)

process_deposit(e, tx_id, client_id, amount) ==
    LET ins == insert_tx(e.transactions, tx_id, amount) IN
    IF ins.result = "AlreadyExists"
    THEN Return(e, Err("DuplicateTx", tx_id))
    ELSE LET e1 == [e EXCEPT !.transactions = ins.transactions]
             account == unwrap_or(AccountStore_find_by_id(e1.accounts, client_id),
                                  AccountData(0, 0))
             account2 == [account EXCEPT !.available = @ + amount]
         IN  Return([e1 EXCEPT !.accounts =
                         add_or_update_account(@, client_id, account2)], Ok)

\* mutant: the funds test compares the amount with available + held
process_withdrawal_total(e, tx_id, client_id, amount) ==
    LET ins == insert_tx(e.transactions, tx_id, amount) IN
    IF ins.result = "AlreadyExists"
    THEN Return(e, Err("DuplicateTx", tx_id))
    ELSE LET e1 == [e EXCEPT !.transactions = ins.transactions]
             found == AccountStore_find_by_id(e1.accounts, client_id)
         IN  IF is_none(found)
             THEN Return(e1, Err("AccountNotFound", client_id))
             ELSE LET account == unwrap(found) IN
                  IF account.available + account.held < amount
                  THEN Return(e1, Err("InsufficientFunds", client_id))
                  ELSE Return([e1 EXCEPT !.accounts =
                                  add_or_update_account(@, client_id,
                                      [account EXCEPT !.available = @ - amount])],
                              Ok)

\* mutant: a withdrawal of a client with no account starts from an empty one
process_withdrawal_open(e, tx_id, client_id, amount) ==
    LET ins == insert_tx(e.transactions, tx_id, amount) IN
    IF ins.result = "AlreadyExists"
    THEN Return(e, Err("DuplicateTx", tx_id))
    ELSE LET e1 == [e EXCEPT !.transactions = ins.transactions]
             account == unwrap_or(AccountStore_find_by_id(e1.accounts, client_id),
                                  AccountData(0, 0))
         IN  IF account.available < amount
             THEN Return(e1, Err("InsufficientFunds", client_id))
             ELSE Return([e1 EXCEPT !.accounts =
                             add_or_update_account(@, client_id,
                                 [account EXCEPT !.available = @ - amount])],
                         Ok)

\* mutant: the withdrawal debits the account before it tests the funds
process_withdrawal_debit_first(e, tx_id, client_id, amount) ==
    LET ins == insert_tx(e.transactions, tx_id, amount) IN
    IF ins.result = "AlreadyExists"
    THEN Return(e, Err("DuplicateTx", tx_id))
    ELSE LET e1 == [e EXCEPT !.transactions = ins.transactions]
             found == AccountStore_find_by_id(e1.accounts, client_id)
         IN  IF is_none(found)
             THEN Return(e1, Err("AccountNotFound", client_id))
             ELSE LET account == unwrap(found)
                      e2 == [e1 EXCEPT !.accounts =
                                add_or_update_account(@, client_id,
                                    [account EXCEPT !.available = @ - amount])]
                  IN  IF account.available < amount
                      THEN Return(e2, Err("InsufficientFunds", client_id))
                      ELSE Return(e2, Ok)

process_withdrawal(e, tx_id, client_id, amount) ==
    LET ins == insert_tx(e.transactions, tx_id, amount) IN
    IF ins.result = "AlreadyExists"
    THEN Return(e, Err("DuplicateTx", tx_id))
    ELSE LET e1 == [e EXCEPT !.transactions = ins.transactions]
             found == AccountStore_find_by_id(e1.accounts, client_id)
         IN  IF is_none(found)
             THEN Return(e1, Err("AccountNotFound", client_id))
             ELSE LET account == unwrap(found) IN
                  IF account.available < amount
                  THEN Return(e1, Err("InsufficientFunds", client_id))
                  ELSE Return([e1 EXCEPT !.accounts =
                                  add_or_update_account(@, client_id,
                                      [account EXCEPT !.available = @ - amount])],
                              Ok)

\* mutant: the dispute does not look at tx.disputed
process_dispute_again(e, tx_id, client_id) ==
    LET txo == TransactionStore_find_by_id(e.transactions,
                                           e.disputed_transactions, tx_id) IN
    IF is_none(txo) THEN Return(e, Err("TxNotFound", tx_id))
    ELSE LET tx == unwrap(txo)
             found == AccountStore_find_by_id(e.accounts, client_id) IN
         IF is_none(found) THEN Return(e, Err("AccountNotFound", client_id))
         ELSE LET data == unwrap(found)
                  data2 == [data EXCEPT !.held = @ + tx.amount,
                                        !.available = @ - tx.amount]
              IN  Return([e EXCEPT
                            !.accounts = add_or_update_account(@, client_id, data2),
                            !.disputed_transactions = dispute_transaction(@, tx_id)],
                         Ok)

\* mutant: the dispute takes the amount from available and holds nothing
process_dispute_debit_only(e, tx_id, client_id) ==
    LET txo == TransactionStore_find_by_id(e.transactions,
                                           e.disputed_transactions, tx_id) IN
    IF is_none(txo) THEN Return(e, Err("TxNotFound", tx_id))
    ELSE LET tx == unwrap(txo) IN
         IF tx.disputed THEN Return(e, Err("TxAlreadyDisputed", tx_id))
         ELSE LET found == AccountStore_find_by_id(e.accounts, client_id) IN
              IF is_none(found) THEN Return(e, Err("AccountNotFound", client_id))
              ELSE LET data == unwrap(found)
                       data2 == [data EXCEPT !.available = @ - tx.amount]
                   IN  Return([e EXCEPT
                                 !.accounts = add_or_update_account(@, client_id, data2),
                                 !.disputed_transactions = dispute_transaction(@, tx_id)],
                              Ok)

process_dispute(e, tx_id, client_id) ==
    LET txo == TransactionStore_find_by_id(e.transactions,
                                           e.disputed_transactions, tx_id) IN
    IF is_none(txo) THEN Return(e, Err("TxNotFound", tx_id))
    ELSE LET tx == unwrap(txo) IN
         IF tx.disputed THEN Return(e, Err("TxAlreadyDisputed", tx_id))
         ELSE LET found == AccountStore_find_by_id(e.accounts, client_id) IN
              IF is_none(found) THEN Return(e, Err("AccountNotFound", client_id))
              ELSE LET data == unwrap(found)
                       data2 == [data EXCEPT !.held = @ + tx.amount,
                                             !.available = @ - tx.amount]
                   IN  Return([e EXCEPT
                                 !.accounts = add_or_update_account(@, client_id, data2),
                                 !.disputed_transactions = dispute_transaction(@, tx_id)],
                              Ok)

\* mutant: the resolve gives back the held balance, not the stored amount
process_resolve_held(e, tx_id, client_id) ==
    LET txo == TransactionStore_find_by_id(e.transactions,
                                           e.disputed_transactions, tx_id) IN
    IF is_none(txo) THEN Return(e, Err("TxNotFound", tx_id))
    ELSE LET tx == unwrap(txo) IN
         IF ~tx.disputed THEN Return(e, Err("TxNotDisputed", tx_id))
         ELSE LET found == AccountStore_find_by_id(e.accounts, client_id) IN
              IF is_none(found) THEN Return(e, Err("AccountNotFound", client_id))
              ELSE LET data == unwrap(found)
                       data2 == [data EXCEPT !.held = 0,
                                             !.available = @ + data.held]
                   IN  Return([e EXCEPT
                                 !.accounts = add_or_update_account(@, client_id, data2),
                                 !.disputed_transactions = resolve_transaction(@, tx_id)],
                              Ok)

\* mutant: the resolve reports a missing transaction as not disputed
process_resolve_collapsed(e, tx_id, client_id) ==
    LET txo == TransactionStore_find_by_id(e.transactions,
                                           e.disputed_transactions, tx_id) IN
    IF is_none(txo) THEN Return(e, Err("TxNotDisputed", tx_id))
    ELSE LET tx == unwrap(txo) IN
         IF ~tx.disputed THEN Return(e, Err("TxNotDisputed", tx_id))
         ELSE LET found == AccountStore_find_by_id(e.accounts, client_id) IN
              IF is_none(found) THEN Return(e, Err("AccountNotFound", client_id))
              ELSE LET data == unwrap(found)
                       data2 == [data EXCEPT !.held = @ - tx.amount,
                                             !.available = @ + tx.amount]
                   IN  Return([e EXCEPT
                                 !.accounts = add_or_update_account(@, client_id, data2),
                                 !.disputed_transactions = resolve_transaction(@, tx_id)],
                              Ok)

process_resolve(e, tx_id, client_id) ==
    LET txo == TransactionStore_find_by_id(e.transactions,
                                           e.disputed_transactions, tx_id) IN
    IF is_none(txo) THEN Return(e, Err("TxNotFound", tx_id))
    ELSE LET tx == unwrap(txo) IN
         IF ~tx.disputed THEN Return(e, Err("TxNotDisputed", tx_id))
         ELSE LET found == AccountStore_find_by_id(e.accounts, client_id) IN
              IF is_none(found) THEN Return(e, Err("AccountNotFound", client_id))
              ELSE LET data == unwrap(found)
                       data2 == [data EXCEPT !.held = @ - tx.amount,
                                             !.available = @ + tx.amount]
                   IN  Return([e EXCEPT
                                 !.accounts = add_or_update_account(@, client_id, data2),
                                 !.disputed_transactions = resolve_transaction(@, tx_id)],
                              Ok)

\* mutant: the chargeback does not lock the client
process_chargeback_nolock(e, tx_id, client_id) ==
    LET txo == TransactionStore_find_by_id(e.transactions,
                                           e.disputed_transactions, tx_id) IN
    IF is_none(txo) THEN Return(e, Err("TxNotFound", tx_id))
    ELSE LET tx == unwrap(txo) IN
         IF ~tx.disputed THEN Return(e, Err("TxNotDisputed", tx_id))
         ELSE LET found == AccountStore_find_by_id(e.accounts, client_id) IN
              IF is_none(found) THEN Return(e, Err("AccountNotFound", client_id))
              ELSE LET data == unwrap(found)
                       data2 == [data EXCEPT !.held = @ - tx.amount]
                   IN  Return([e EXCEPT
                                 !.accounts = add_or_update_account(@, client_id, data2)],
                              Ok)

\* mutant: the chargeback does not look at tx.disputed
process_chargeback_undisputed(e, tx_id, client_id) ==
    LET txo == TransactionStore_find_by_id(e.transactions,
                                           e.disputed_transactions, tx_id) IN
    IF is_none(txo) THEN Return(e, Err("TxNotFound", tx_id))
    ELSE LET tx == unwrap(txo)
             found == AccountStore_find_by_id(e.accounts, client_id) IN
         IF is_none(found) THEN Return(e, Err("AccountNotFound", client_id))
         ELSE LET data == unwrap(found)
                  data2 == [data EXCEPT !.held = @ - tx.amount]
              IN  Return([e EXCEPT
                            !.accounts = add_or_update_account(@, client_id, data2),
                            !.locked_accounts = lock_account(@, client_id)],
                         Ok)

\* mutant: the chargeback reports a missing transaction as not disputed
process_chargeback_collapsed(e, tx_id, client_id) ==
    LET txo == TransactionStore_find_by_id(e.transactions,
                                           e.disputed_transactions, tx_id) IN
    IF is_none(txo) THEN Return(e, Err("TxNotDisputed", tx_id))
    ELSE LET tx == unwrap(txo) IN
         IF ~tx.disputed THEN Return(e, Err("TxNotDisputed", tx_id))
         ELSE LET found == AccountStore_find_by_id(e.accounts, client_id) IN
              IF is_none(found) THEN Return(e, Err("AccountNotFound", client_id))
              ELSE LET data == unwrap(found)
                       data2 == [data EXCEPT !.held = @ - tx.amount]
                   IN  Return([e EXCEPT
                                 !.accounts = add_or_update_account(@, client_id, data2),
                                 !.locked_accounts = lock_account(@, client_id)],
                              Ok)

\* mutant: the chargeback removes the transaction from the store
process_chargeback_forgets(e, tx_id, client_id) ==
    LET txo == TransactionStore_find_by_id(e.transactions,
                                           e.disputed_transactions, tx_id) IN
    IF is_none(txo) THEN Return(e, Err("TxNotFound", tx_id))
    ELSE LET tx == unwrap(txo) IN
         IF ~tx.disputed THEN Return(e, Err("TxNotDisputed", tx_id))
         ELSE LET found == AccountStore_find_by_id(e.accounts, client_id) IN
              IF is_none(found) THEN Return(e, Err("AccountNotFound", client_id))
              ELSE LET data == unwrap(found)
                       data2 == [data EXCEPT !.held = @ - tx.amount]
                   IN  Return([e EXCEPT
                                 !.accounts = add_or_update_account(@, client_id, data2),
                                 !.transactions =
                                     [t \in (DOMAIN @) \ {tx_id} |-> @[t]],
                                 !.disputed_transactions = @ \ {tx_id},
                                 !.locked_accounts = lock_account(@, client_id)],
                              Ok)

process_chargeback(e, tx_id, client_id) ==
    LET txo == TransactionStore_find_by_id(e.transactions,
                                           e.disputed_transactions, tx_id) IN
    IF is_none(txo) THEN Return(e, Err("TxNotFound", tx_id))
    ELSE LET tx == unwrap(txo) IN
         IF ~tx.disputed THEN Return(e, Err("TxNotDisputed", tx_id))
         ELSE LET found == AccountStore_find_by_id(e.accounts, client_id) IN
              IF is_none(found) THEN Return(e, Err("AccountNotFound", client_id))
              ELSE LET data == unwrap(found)
                       data2 == [data EXCEPT !.held = @ - tx.amount]
                   IN  Return([e EXCEPT
                                 !.accounts = add_or_update_account(@, client_id, data2),
                                 !.locked_accounts = lock_account(@, client_id)],
                              Ok)

\* mutant: the lock is tested for deposits and withdrawals only
process_row_lock_funds_only(e, r) ==
    IF is_account_locked(e.locked_accounts, r.client_id)
       /\ r.tx_type \in {"Deposit", "Withdrawal"}
    THEN Return(e, Err("AccountLocked", r.client_id))
    ELSE CASE r.tx_type = "Deposit" /\ is_none(r.amount) ->
                  Return(e, Err("AmountNotSpecified", r.tx_id))
           [] r.tx_type = "Withdrawal" /\ is_none(r.amount) ->
                  Return(e, Err("AmountNotSpecified", r.tx_id))
           [] r.tx_type = "Deposit" /\ ~is_none(r.amount) ->
                  process_deposit(e, r.tx_id, r.client_id, unwrap(r.amount))
           [] r.tx_type = "Withdrawal" /\ ~is_none(r.amount) ->
                  process_withdrawal(e, r.tx_id, r.client_id, unwrap(r.amount))
           [] r.tx_type = "Resolve" -> process_resolve(e, r.tx_id, r.client_id)
           [] r.tx_type = "Dispute" -> process_dispute(e, r.tx_id, r.client_id)
           [] r.tx_type = "Chargeback" -> process_chargeback(e, r.tx_id, r.client_id)

\* mutant: a deposit or withdrawal with no amount is processed with amount 0
process_row_amount_default(e, r) ==
    IF is_account_locked(e.locked_accounts, r.client_id)
    THEN Return(e, Err("AccountLocked", r.client_id))
    ELSE CASE r.tx_type = "Deposit" ->
                  process_deposit(e, r.tx_id, r.client_id, unwrap_or(r.amount, 0))
           [] r.tx_type = "Withdrawal" ->
                  process_withdrawal(e, r.tx_id, r.client_id, unwrap_or(r.amount, 0))
           [] r.tx_type = "Resolve" -> process_resolve(e, r.tx_id, r.client_id)
           [] r.tx_type = "Dispute" -> process_dispute(e, r.tx_id, r.client_id)
           [] r.tx_type = "Chargeback" -> process_chargeback(e, r.tx_id, r.client_id)

process_row(e, r) ==
    IF is_account_locked(e.locked_accounts, r.client_id)
    THEN Return(e, Err("AccountLocked", r.client_id))
    ELSE CASE r.tx_type = "Deposit" /\ is_none(r.amount) ->
                  Return(e, Err("AmountNotSpecified", r.tx_id))
           [] r.tx_type = "Withdrawal" /\ is_none(r.amount) ->
                  Return(e, Err("AmountNotSpecified", r.tx_id))
           [] r.tx_type = "Deposit" /\ ~is_none(r.amount) ->
                  process_deposit(e, r.tx_id, r.client_id, unwrap(r.amount))
           [] r.tx_type = "Withdrawal" /\ ~is_none(r.amount) ->
                  process_withdrawal(e, r.tx_id, r.client_id, unwrap(r.amount))
           [] r.tx_type = "Resolve" -> process_resolve(e, r.tx_id, r.client_id)
           [] r.tx_type = "Dispute" -> process_dispute(e, r.tx_id, r.client_id)
           [] r.tx_type = "Chargeback" -> process_chargeback(e, r.tx_id, r.client_id)

\* ------------------------------------------------------------ state
VARIABLES
    accounts,               \* AccountStore.accounts
    transactions,           \* TransactionStore.transactions
    disputed_transactions,  \* TransactionStore.disputed_transactions
    locked_accounts,        \* LockedAccountStore.locked_accounts
    stream,                 \* the records reader.deserialize::<TxRow>() yields
    pos                     \* the record result_iter yields next

vars == <<accounts, transactions, disputed_transactions, locked_accounts,
          stream, pos>>

engine ==
    [accounts |-> accounts, transactions |-> transactions,
     disputed_transactions |-> disputed_transactions,
     locked_accounts |-> locked_accounts]

Init ==
    /\ accounts = Engine_new.accounts
    /\ transactions = Engine_new.transactions
    /\ disputed_transactions = Engine_new.disputed_transactions
    /\ locked_accounts = Engine_new.locked_accounts
    /\ stream = <<>>
    /\ pos = 1

\* The balances the model follows: a stream is cut off before a balance
\* leaves -MaxBalance..MaxBalance.
InRange(accs) ==
    \A c \in DOMAIN accs :
        /\ accs[c].available \in (0 - MaxBalance)..MaxBalance
        /\ accs[c].held \in (0 - MaxBalance)..MaxBalance

\* ClientId and TxId are opaque keys, only ever compared for equality, so a
\* stream is followed up to a renaming of its ids: the first record that names
\* an id no store holds yet names the smallest such id.
InOrder(ids, used, id) == IF id \in used THEN TRUE ELSE \A j \in ids \ used : id <= j

Canonical(r) ==
    /\ InOrder(TxIds, DOMAIN transactions, r.tx_id)
    /\ InOrder(ClientIds, DOMAIN accounts, r.client_id)

\* One iteration of the record loop of main: engine.process_row(&x), for
\* whatever record the reader yields next (Spec does not fix the file).
Step(r) ==
    LET out == process_row(engine, r) IN
    /\ Canonical(r)
    /\ accounts' = out.engine.accounts
    /\ transactions' = out.engine.transactions
    /\ disputed_transactions' = out.engine.disputed_transactions
    /\ locked_accounts' = out.engine.locked_accounts
    /\ InRange(out.engine.accounts)
    /\ UNCHANGED <<stream, pos>>

Deposit ==
    \E r \in TxRow :
        /\ r.tx_type = "Deposit"
        /\ Step(r)

Withdrawal ==
    \E r \in TxRow :
        /\ r.tx_type = "Withdrawal"
        /\ Step(r)

Dispute ==
    \E r \in TxRow :
        /\ r.tx_type = "Dispute"
        /\ Step(r)

Resolve ==
    \E r \in TxRow :
        /\ r.tx_type = "Resolve"
        /\ Step(r)

Chargeback ==
    \E r \in TxRow :
        /\ r.tx_type = "Chargeback"
        /\ Step(r)

Next == Deposit \/ Withdrawal \/ Dispute \/ Resolve \/ Chargeback

Spec == Init /\ [][Next]_vars

\* ------------------------------------------------------------ a whole run
\* main on one input file: the file is a finite sequence of well-typed
\* records, and result_iter applies process_row to one record per iteration
\* of the for loop, logs an error and goes on to the next record.
MaxStream == 3

StreamRows ==
    {r \in TxRow :
        /\ r.client_id = 1
        /\ r.tx_id \in {1, MaxTx}
        /\ IF r.tx_type \in {"Deposit", "Withdrawal"}
           THEN r.amount \in {None, Some(MaxAmount)}
           ELSE r.amount = None /\ r.tx_id = 1}

RECURSIVE StreamsOfLen(_)
StreamsOfLen(n) ==
    IF n = 0 THEN {<<>>}
    ELSE {Append(s, r) : s \in StreamsOfLen(n - 1), r \in StreamRows}

Streams == UNION {StreamsOfLen(n) : n \in 0..MaxStream}

\* mutant: the loop stops at the first record that is rejected
main_loop_stop(e, s, i) ==
    LET out == process_row(e, s[i]) IN
    [engine |-> out.engine,
     pos |-> IF out.result = Ok THEN i + 1 ELSE Len(s) + 1]

\* One iteration of `for result in result_iter`: record i of the stream is
\* processed against engine e, an Err is logged, and the loop goes on.
main_loop(e, s, i) ==
    LET out == process_row(e, s[i]) IN
    [engine |-> out.engine, pos |-> i + 1]

InitRun ==
    /\ accounts = Engine_new.accounts
    /\ transactions = Engine_new.transactions
    /\ disputed_transactions = Engine_new.disputed_transactions
    /\ locked_accounts = Engine_new.locked_accounts
    /\ stream \in Streams
    /\ pos = 1

RunRecord ==
    /\ pos <= Len(stream)
    /\ LET it == main_loop(engine, stream, pos) IN
       /\ accounts' = it.engine.accounts
       /\ transactions' = it.engine.transactions
       /\ disputed_transactions' = it.engine.disputed_transactions
       /\ locked_accounts' = it.engine.locked_accounts
       /\ pos' = it.pos
    /\ UNCHANGED stream

NextRun == RunRecord

\* The for loop is not suspended: while a record is left it is processed.
SpecRun == InitRun /\ [][NextRun]_vars /\ WF_vars(NextRun)

\* ------------------------------------------------------------ claims
\* Every claim is stated over the calls the record loop can make next: in a
\* reachable state, Call(r) is what engine.process_row(&r) returns and the
\* engine it leaves behind.
Row(type, c, t, amt) == [tx_type |-> type, client_id |-> c, tx_id |-> t, amount |-> amt]

Call(r) == process_row(engine, r)

Unlocked(c) == ~is_account_locked(locked_accounts, c)

\* C1: a record of a locked client is rejected with AccountLocked whatever
\* its kind, its amount and its TxId, and the three stores are left as they were.
C1_LockedClientRejected ==
    \A r \in TxRow :
        is_account_locked(locked_accounts, r.client_id) =>
            Call(r) = Return(engine, Err("AccountLocked", r.client_id))

\* a locked client exists and is refused a record with no amount and an
\* unrecorded TxId as well as a deposit carrying an amount and a recorded TxId
C1_Witness ==
    \E r1, r2 \in TxRow :
        /\ r1.client_id \in locked_accounts
        /\ r2.client_id \in locked_accounts
        /\ r1.amount = None /\ r1.tx_id \notin DOMAIN transactions
        /\ r2.tx_type = "Deposit" /\ r2.amount # None /\ r2.tx_id \in DOMAIN transactions
        /\ Call(r1).result.kind = "AccountLocked"
        /\ Call(r2).result.kind = "AccountLocked"

DisputeRow(c, t) == Row("Dispute", c, t, None)
ResolveRow(c, t) == Row("Resolve", c, t, None)
ChargebackRow(c, t) == Row("Chargeback", c, t, None)

\* C2: a chargeback that succeeds (the dispute of t having succeeded before
\* it) locks its client, takes exactly t's stored amount off the client's
\* held and leaves available alone; from then on every record of that
\* client is refused with AccountLocked, and no later record unlocks a client.
C2_ChargebackLocksForGood ==
    /\ \A c \in ClientIds, t \in TxIds :
           LET cb == Call(ChargebackRow(c, t)) IN
           cb.result = Ok =>
               /\ t \in disputed_transactions
               /\ is_account_locked(cb.engine.locked_accounts, c)
               /\ cb.engine.accounts[c].held = accounts[c].held - transactions[t]
               /\ cb.engine.accounts[c].available = accounts[c].available
               /\ \A r \in TxRow :
                      r.client_id = c =>
                          process_row(cb.engine, r).result = Err("AccountLocked", c)
    /\ \A r \in TxRow :
           LET out == Call(r) IN
           /\ locked_accounts \subseteq out.engine.locked_accounts
           /\ r.client_id \in locked_accounts => out.result.kind = "AccountLocked"

\* deposit 2, deposit 1, dispute of the second, chargeback of it: the client
\* ends with available 2, held 0, locked
C2_Witness ==
    \E c \in ClientIds, t \in TxIds :
        LET d == Call(DisputeRow(c, t))
            cb == process_row(d.engine, ChargebackRow(c, t))
        IN  /\ c \in DOMAIN accounts /\ t \in DOMAIN transactions
            /\ accounts[c] = AccountData(MaxAmount + 1, 0)
            /\ transactions[t] = 1
            /\ d.result = Ok /\ cb.result = Ok
            /\ cb.engine.accounts[c] = AccountData(MaxAmount, 0)
            /\ c \in cb.engine.locked_accounts

\* C3: a record that process_row rejects leaves the transaction store, the
\* account store and the lock store exactly as they were.
C3_NoPartialMutation ==
    \A r \in TxRow :
        LET out == Call(r) IN
        out.result.kind \in ProcessingError => out.engine = engine

Overdraw(r) ==
    /\ r.tx_type = "Withdrawal"
    /\ r.amount # None
    /\ r.client_id \in DOMAIN accounts
    /\ unwrap(r.amount) > accounts[r.client_id].available

\* C4 as stated: a withdrawal of more than the client's available fails with
\* InsufficientFunds and leaves the balances alone.
C4_Original ==
    \A r \in TxRow :
        Overdraw(r) =>
            LET out == Call(r) IN
            /\ out.result = Err("InsufficientFunds", r.client_id)
            /\ out.engine.accounts = accounts

\* C4: a withdrawal of more than the client's available never succeeds and
\* leaves every balance alone; it fails with AccountLocked when the client is
\* locked, else with DuplicateTx when its TxId is recorded, else with
\* InsufficientFunds.
C4_OverdrawRejected ==
    \A r \in TxRow :
        Overdraw(r) =>
            LET out == Call(r) IN
            /\ out.engine.accounts = accounts
            /\ out.result =
                   IF ~Unlocked(r.client_id) THEN Err("AccountLocked", r.client_id)
                   ELSE IF r.tx_id \in DOMAIN transactions THEN Err("DuplicateTx", r.tx_id)
                   ELSE Err("InsufficientFunds", r.client_id)

\* a client with funds asks for more than it has, with a fresh TxId
C4_Witness ==
    \E r \in TxRow :
        /\ Overdraw(r)
        /\ Unlocked(r.client_id)
        /\ r.tx_id \notin DOMAIN transactions
        /\ accounts[r.client_id].available > 0
        /\ Call(r).result.kind = "InsufficientFunds"

FundsRow(r) == r.tx_type \in {"Deposit", "Withdrawal"} /\ r.amount # None

\* C5: a TxId that a deposit or withdrawal was accepted with is recorded and
\* stays recorded, and a deposit or withdrawal of an unlocked client that
\* carries a recorded TxId fails with DuplicateTx and changes nothing,
\* whatever the dispute state of that TxId.
C5_TxIdUsedOnce ==
    \A r \in TxRow :
        LET out == Call(r) IN
        /\ DOMAIN transactions \subseteq DOMAIN out.engine.transactions
        /\ FundsRow(r) /\ out.result = Ok =>
               r.tx_id \in DOMAIN out.engine.transactions
        /\ FundsRow(r) /\ Unlocked(r.client_id) /\ r.tx_id \in DOMAIN transactions =>
               out = Return(engine, Err("DuplicateTx", r.tx_id))

\* one TxId is charged back (still disputed, its client locked), another is
\* recorded and undisputed; an unlocked client reuses both
C5_Witness ==
    \E r1, r2 \in TxRow :
        /\ r1.tx_type = "Deposit" /\ r2.tx_type = "Withdrawal"
        /\ r1.amount # None /\ r2.amount # None
        /\ Unlocked(r1.client_id) /\ Unlocked(r2.client_id)
        /\ r1.tx_id \in disputed_transactions
        /\ locked_accounts # {}
        /\ r2.tx_id \in DOMAIN transactions \ disputed_transactions
        /\ Call(r1).result.kind = "DuplicateTx"
        /\ Call(r2).result.kind = "DuplicateTx"

\* What a successful deposit or withdrawal x of client c adds to c's available.
FundsDelta(c, x, res) ==
    IF res = Ok /\ x.client_id = c /\ x.tx_type = "Deposit" THEN unwrap(x.amount)
    ELSE IF res = Ok /\ x.client_id = c /\ x.tx_type = "Withdrawal" THEN 0 - unwrap(x.amount)
    ELSE 0

\* C6 as stated: after a successful dispute of t by c, one record x of c, and
\* a successful resolve of t by c, c's balances are the pre-dispute ones
\* adjusted only by x when x is a successful deposit or withdrawal.
C6_Original ==
    \A c \in ClientIds, t \in TxIds :
        LET d == Call(DisputeRow(c, t)) IN
        d.result = Ok =>
            \A x \in TxRow :
                LET m == process_row(d.engine, x)
                    rs == process_row(m.engine, ResolveRow(c, t))
                IN  x.client_id = c /\ rs.result = Ok =>
                        rs.engine.accounts[c] =
                            AccountData(accounts[c].available + FundsDelta(c, x, m.result),
                                        accounts[c].held)

\* C6: a successful resolve of t by c gives back exactly the stored amount
\* that the successful dispute of t by c moved from available to held (the
\* amount stored under t never changes), so that with nothing in between the
\* whole engine is as before the dispute, and with a record x of c in between
\* c's balances are the pre-dispute ones adjusted by what x did to c's account.
C6_DisputeResolveRoundTrip ==
    /\ \A c \in ClientIds, t \in TxIds :
           LET d == Call(DisputeRow(c, t)) IN
           d.result = Ok =>
               /\ d.engine.accounts[c] =
                      AccountData(accounts[c].available - transactions[t],
                                  accounts[c].held + transactions[t])
               /\ process_row(d.engine, ResolveRow(c, t)) = Return(engine, Ok)
               /\ \A x \in TxRow :
                      LET m == process_row(d.engine, x)
                          rs == process_row(m.engine, ResolveRow(c, t))
                      IN  x.client_id = c /\ rs.result = Ok =>
                              rs.engine.accounts[c] =
                                  AccountData(accounts[c].available
                                                + (m.engine.accounts[c].available
                                                   - d.engine.accounts[c].available),
                                              accounts[c].held
                                                + (m.engine.accounts[c].held
                                                   - d.engine.accounts[c].held))
    /\ \A c \in ClientIds, t \in TxIds :
           LET rs == Call(ResolveRow(c, t)) IN
           rs.result = Ok =>
               rs.engine.accounts[c] =
                   AccountData(accounts[c].available + transactions[t],
                               accounts[c].held - transactions[t])
    /\ \A r \in TxRow :
           LET out == Call(r) IN
           \A t \in DOMAIN transactions : out.engine.transactions[t] = transactions[t]

\* a client disputes the deposit t it holds, deposits again in between and
\* resolves t
C6_Witness ==
    \E c \in ClientIds, t \in TxIds, x \in TxRow :
        LET d == Call(DisputeRow(c, t))
            m == process_row(d.engine, x)
            rs == process_row(m.engine, ResolveRow(c, t))
        IN  /\ c \in DOMAIN accounts
            /\ accounts[c].available > 0
            /\ d.result = Ok
            /\ x.tx_type = "Deposit" /\ x.client_id = c /\ m.result = Ok
            /\ rs.result = Ok
            /\ rs.engine.accounts[c].available = accounts[c].available + unwrap(x.amount)

ClosingRow(r) == r.tx_type \in {"Resolve", "Chargeback"} /\ Unlocked(r.client_id)

\* C7 as stated: a resolve or chargeback of an unrecorded TxId fails with
\* TxNotDisputed.
C7_Original ==
    \A r \in TxRow :
        ClosingRow(r) /\ r.tx_id \notin DOMAIN transactions =>
            Call(r).result = Err("TxNotDisputed", r.tx_id)

\* C7: resolve and chargeback keep the two cases apart: they fail with
\* TxNotFound exactly when the TxId is not recorded and with TxNotDisputed
\* exactly when it is recorded and not disputed.
C7_NotFoundIsSeparate ==
    \A r \in TxRow :
        ClosingRow(r) =>
            LET out == Call(r) IN
            /\ out.result.kind = "TxNotFound" <=> r.tx_id \notin DOMAIN transactions
            /\ out.result.kind = "TxNotDisputed" <=>
                   r.tx_id \in DOMAIN transactions \ disputed_transactions

\* one client gets TxNotDisputed for a recorded TxId and TxNotFound for an
\* unrecorded one, from a resolve and from a chargeback
C7_Witness ==
    \E c \in ClientIds, t1, t2 \in TxIds :
        /\ Unlocked(c)
        /\ t1 \in DOMAIN transactions /\ t2 \notin DOMAIN transactions
        /\ Call(ResolveRow(c, t1)).result.kind = "TxNotDisputed"
        /\ Call(ChargebackRow(c, t1)).result.kind = "TxNotDisputed"
        /\ Call(ResolveRow(c, t2)).result.kind = "TxNotFound"
        /\ Call(ChargebackRow(c, t2)).result.kind = "TxNotFound"

\* C8: a resolve or chargeback of an unlocked client for a TxId that is not
\* recorded fails with TxNotFound carrying that TxId and changes nothing.
C8_UnknownTxNotFound ==
    \A r \in TxRow :
        ClosingRow(r) /\ r.tx_id \notin DOMAIN transactions =>
            Call(r) = Return(engine, Err("TxNotFound", r.tx_id))

\* a client that holds funds resolves, or charges back, a TxId nobody used
C8_Witness ==
    \E r \in TxRow :
        /\ ClosingRow(r)
        /\ r.client_id \in DOMAIN accounts
        /\ transactions # <<>>
        /\ r.tx_id \notin DOMAIN transactions
        /\ Call(r).result = Err("TxNotFound", r.tx_id)

\* C9: a resolve or chargeback of an unlocked client for a recorded
\* transaction that is not disputed now fails with TxNotDisputed and changes
\* nothing.
C9_UndisputedNotClosed ==
    \A r \in TxRow :
        ClosingRow(r) /\ r.tx_id \in DOMAIN transactions \ disputed_transactions =>
            Call(r) = Return(engine, Err("TxNotDisputed", r.tx_id))

\* t is disputed and resolved, and then a second resolve and a chargeback of
\* it are refused
C9_Witness ==
    \E c \in ClientIds, t \in TxIds :
        LET d == Call(DisputeRow(c, t))
            rs == process_row(d.engine, ResolveRow(c, t))
        IN  /\ d.result = Ok /\ rs.result = Ok
            /\ process_row(rs.engine, ResolveRow(c, t)).result.kind = "TxNotDisputed"
            /\ process_row(rs.engine, ChargebackRow(c, t)).result.kind = "TxNotDisputed"

\* C10: a dispute of an unlocked client fails with TxNotFound when its TxId
\* is not recorded and with TxAlreadyDisputed when the transaction is
\* disputed, and changes nothing in either case.
C10_DisputeRejected ==
    \A r \in TxRow :
        r.tx_type = "Dispute" /\ Unlocked(r.client_id) =>
            /\ r.tx_id \notin DOMAIN transactions =>
                   Call(r) = Return(engine, Err("TxNotFound", r.tx_id))
            /\ r.tx_id \in disputed_transactions =>
                   Call(r) = Return(engine, Err("TxAlreadyDisputed", r.tx_id))

\* a dispute succeeds and the same dispute again is refused, while a dispute
\* of an unrecorded TxId is refused now
C10_Witness ==
    \E c \in ClientIds, t, u \in TxIds :
        LET d == Call(DisputeRow(c, t)) IN
        /\ d.result = Ok
        /\ transactions[t] > 0
        /\ process_row(d.engine, DisputeRow(c, t)) =
               Return(d.engine, Err("TxAlreadyDisputed", t))
        /\ u \notin DOMAIN transactions
        /\ Call(DisputeRow(c, u)).result = Err("TxNotFound", u)

\* The checks a handler makes before it looks the account up: the amount and
\* the unused TxId of a withdrawal, the recorded and undisputed transaction of
\* a dispute, the disputed transaction of a resolve or chargeback.
ReachesLookup(r) ==
    CASE r.tx_type = "Withdrawal" ->
             ~is_none(r.amount) /\ r.tx_id \notin DOMAIN transactions
      [] r.tx_type = "Dispute" ->
             r.tx_id \in DOMAIN transactions /\ r.tx_id \notin disputed_transactions
      [] r.tx_type \in {"Resolve", "Chargeback"} ->
             r.tx_id \in DOMAIN transactions /\ r.tx_id \in disputed_transactions
      [] OTHER -> FALSE

\* C11 as written: a withdrawal, dispute, resolve or chargeback of a client
\* with no account always fails with AccountNotFound and creates no account.
C11_Original ==
    \A r \in TxRow :
        r.tx_type # "Deposit" /\ r.client_id \notin DOMAIN accounts =>
            LET out == Call(r) IN
            /\ out.result = Err("AccountNotFound", r.client_id)
            /\ r.client_id \notin DOMAIN out.engine.accounts

\* C11: a withdrawal, dispute, resolve or chargeback of a client with no
\* account fails and leaves the account store as it was; the error is
\* AccountNotFound exactly when the checks made before the account lookup
\* pass. The set of accounts grows only by the client of a deposit that
\* returned Ok and never shrinks, so it is the set of clients with a
\* successful deposit.
C11_AccountsOnlyByDeposit ==
    \A r \in TxRow :
        LET out == Call(r) IN
        /\ DOMAIN out.engine.accounts =
               DOMAIN accounts \cup
                   (IF r.tx_type = "Deposit" /\ out.result = Ok
                    THEN {r.client_id} ELSE {})
        /\ r.tx_type # "Deposit" /\ r.client_id \notin DOMAIN accounts =>
               /\ out.result.kind \in ProcessingError
               /\ out.engine.accounts = accounts
               /\ out.result = Err("AccountNotFound", r.client_id) <=> ReachesLookup(r)

\* one client has an account and a disputed deposit, another has none: the
\* other's withdrawal, resolve and chargeback stop at the account lookup, and
\* its dispute of an unrecorded TxId stops earlier
C11_Witness ==
    \E c, d \in ClientIds, t, u \in TxIds :
        /\ c \in DOMAIN accounts /\ d \notin DOMAIN accounts
        /\ t \in disputed_transactions /\ u \notin DOMAIN transactions
        /\ Call(Row("Withdrawal", d, u, Some(1))).result = Err("AccountNotFound", d)
        /\ Call(ResolveRow(d, t)).result = Err("AccountNotFound", d)
        /\ Call(ChargebackRow(d, t)).result = Err("AccountNotFound", d)
        /\ Call(DisputeRow(d, u)).result = Err("TxNotFound", u)

\* C12: no client is locked before the first record is recorded; a call
\* changes the set of locked clients only when it is a chargeback that
\* returns Ok, and then by adding the client of that chargeback; no call
\* removes a client from the set.
C12_LockMonotonic ==
    /\ transactions = Engine_new.transactions => locked_accounts = {}
    /\ \A r \in TxRow :
           LET out == Call(r) IN
           /\ locked_accounts \subseteq out.engine.locked_accounts
           /\ out.engine.locked_accounts # locked_accounts =>
                  /\ r.tx_type = "Chargeback"
                  /\ out.result = Ok
                  /\ out.engine.locked_accounts = locked_accounts \cup {r.client_id}

\* one client is locked already and a chargeback of another client succeeds:
\* afterwards both are locked
C12_Witness ==
    \E c, d \in ClientIds, t \in TxIds :
        LET out == Call(ChargebackRow(d, t)) IN
        /\ c # d
        /\ locked_accounts = {c}
        /\ out.result = Ok
        /\ out.engine.locked_accounts = {c, d}

\* Every recorded deposit and withdrawal amount is positive.
PositiveAmounts == \A t \in DOMAIN transactions : transactions[t] > 0

\* C13: when every deposit and withdrawal amount is positive, the held
\* balance of every account is non-negative.
C13_HeldNonNegative ==
    PositiveAmounts => \A c \in DOMAIN accounts : accounts[c].held >= 0

\* C14: when every deposit and withdrawal amount is positive, the available
\* balance of every account is non-negative.
C14_AvailableNonNegative ==
    PositiveAmounts => \A c \in DOMAIN accounts : accounts[c].available >= 0

\* C15: a transaction recorded with an amount is found with that amount
\* after any call, whatever the record and its outcome: no call deletes a
\* recorded transaction or changes its amount.
C15_StoredAmountKept ==
    \A r \in TxRow :
        LET out == Call(r) IN
        \A t \in DOMAIN transactions :
            LET found == TransactionStore_find_by_id(out.engine.transactions,
                             out.engine.disputed_transactions, t) IN
            /\ ~is_none(found)
            /\ unwrap(found).amount = transactions[t]

\* a disputed transaction is charged back and is still found with its
\* amount, and a deposit that names its TxId with another amount is refused
C15_Witness ==
    \E c, d \in ClientIds, t \in TxIds :
        LET cb == Call(ChargebackRow(c, t))
            dep == process_row(cb.engine, Row("Deposit", d, t, Some(1)))
        IN  /\ cb.result = Ok
            /\ transactions[t] = MaxAmount
            /\ unwrap(TransactionStore_find_by_id(cb.engine.transactions,
                          cb.engine.disputed_transactions, t)).amount = MaxAmount
            /\ dep.result = Err("DuplicateTx", t)
            /\ dep.engine.transactions[t] = MaxAmount

\* C16: a call records a transaction only when it is a deposit or withdrawal
\* that returns Ok, and then under the TxId of that record; a rejected record
\* records none.
C16_RecordedOnlyOnSuccess ==
    \A r \in TxRow :
        LET out == Call(r) IN
        \A t \in DOMAIN out.engine.transactions \ DOMAIN transactions :
            /\ FundsRow(r)
            /\ r.tx_id = t
            /\ out.result = Ok

\* C17: a call with a record of client c, whatever its kind and outcome,
\* leaves every other client as it was: it has an account after the call
\* exactly when it had one before, with the same available and held, and it
\* is locked after the call exactly when it was before.
C17_OtherClientsUntouched ==
    \A r \in TxRow :
        LET out == Call(r) IN
        \A c \in ClientIds \ {r.client_id} :
            /\ c \in DOMAIN out.engine.accounts <=> c \in DOMAIN accounts
            /\ c \in DOMAIN accounts => out.engine.accounts[c] = accounts[c]
            /\ is_account_locked(out.engine.locked_accounts, c)
                   <=> is_account_locked(locked_accounts, c)

\* a locked client with funds keeps its account and its lock while another
\* client's dispute and then chargeback change that client's own account
C17_Witness ==
    \E c, d \in ClientIds, t \in TxIds :
        LET dis == Call(DisputeRow(d, t))
            cb == process_row(dis.engine, ChargebackRow(d, t))
        IN  /\ c # d
            /\ ~Unlocked(c)
            /\ accounts[c].available > 0
            /\ dis.result = Ok /\ cb.result = Ok
            /\ cb.engine.accounts[d] # accounts[d]
            /\ cb.engine.accounts[c] = accounts[c]
            /\ cb.engine.locked_accounts = {c, d}

total(data) == data.available + data.held

\* C18: a call that returns an error leaves the account store as it was, so
\* available, held and their sum are the same for every account; the sum
\* available + held of an account differs after a call only when the call
\* returned Ok.
C18_BalancesMoveOnlyOnSuccess ==
    \A r \in TxRow :
        LET out == Call(r) IN
        /\ out.result.kind \in ProcessingError => out.engine.accounts = accounts
        /\ \A c \in DOMAIN out.engine.accounts :
               (c \notin DOMAIN accounts
                \/ total(out.engine.accounts[c]) # total(accounts[c]))
                   => out.result = Ok

\* an account with held funds: an overdrawing withdrawal is rejected and
\* recorded yet the account is as before, while a deposit moves the sum
C18_Witness ==
    \E c \in ClientIds, t \in TxIds :
        LET w == Call(Row("Withdrawal", c, t, Some(MaxAmount)))
            dep == Call(Row("Deposit", c, t, Some(1)))
        IN  /\ c \in DOMAIN accounts
            /\ accounts[c].held > 0
            /\ w.result = Err("InsufficientFunds", c)
            /\ w.engine.transactions # transactions
            /\ w.engine.accounts = accounts
            /\ dep.result = Ok
            /\ total(dep.engine.accounts[c]) = total(accounts[c]) + 1

\* C19: a deposit with an amount, a TxId that is not recorded and an unlocked
\* client returns Ok; afterwards the TxId is found as a transaction of that
\* amount that is not disputed, the client's available is the one before (0
\* when it had no account) plus the amount, its held is the one before (0
\* when it had no account), and the set of locked clients is unchanged.
C19_DepositSucceeds ==
    \A r \in TxRow :
        (/\ r.tx_type = "Deposit"
         /\ ~is_none(r.amount)
         /\ r.tx_id \notin DOMAIN transactions
         /\ Unlocked(r.client_id)) =>
            LET out == Call(r)
                before == unwrap_or(AccountStore_find_by_id(accounts, r.client_id),
                                    AccountData(0, 0))
            IN  /\ out.result = Ok
                /\ TransactionStore_find_by_id(out.engine.transactions,
                       out.engine.disputed_transactions, r.tx_id)
                       = Some(Transaction(unwrap(r.amount), FALSE))
                /\ out.engine.accounts[r.client_id] =
                       AccountData(before.available + unwrap(r.amount), before.held)
                /\ out.engine.locked_accounts = locked_accounts

\* a deposit into an account that has held funds, and a first deposit of a
\* client with no account
C19_Witness ==
    \E c, d \in ClientIds, t \in TxIds :
        LET old == Call(Row("Deposit", c, t, Some(MaxAmount)))
            new == Call(Row("Deposit", d, t, Some(MaxAmount)))
        IN  /\ c \in DOMAIN accounts /\ d \notin DOMAIN accounts
            /\ accounts[c].held > 0
            /\ old.result = Ok
            /\ old.engine.accounts[c] =
                   AccountData(accounts[c].available + MaxAmount, accounts[c].held)
            /\ new.result = Ok
            /\ new.engine.accounts[d] = AccountData(MaxAmount, 0)

\* The engine after the first n records of stream s were applied to a new
\* engine one after the other, each once, whatever each returned.
RECURSIVE Applied(_, _)
Applied(s, n) ==
    IF n = 0 THEN Engine_new
    ELSE process_row(Applied(s, n - 1), s[n]).engine

RunDone == pos = Len(stream) + 1

\* C20: in a run of main on a finite stream, the stores are at every moment
\* the result of applying the records before the current position to a new
\* engine, each once and in input order, a rejected record included; and the
\* run reaches the end of the stream.
C20_RunTerminates ==
    /\ [](/\ pos \in 1..(Len(stream) + 1)
          /\ engine = Applied(stream, pos - 1))
    /\ <>RunDone

\* a run is over whose first record was rejected and whose later records
\* were accepted against the state the earlier ones left
C20_Witness ==
    /\ RunDone
    /\ Len(stream) = MaxStream
    /\ process_row(Engine_new, stream[1]).result.kind \in ProcessingError
    /\ process_row(Applied(stream, 1), stream[2]).result = Ok
    /\ process_row(Applied(stream, 2), stream[3]).result = Ok
    /\ disputed_transactions # {}

\* C21: a deposit or withdrawal with no amount, of an unlocked client, returns
\* AmountNotSpecified with the record's TxId and leaves every store as it
\* was, whether or not the TxId is recorded and whether or not the client has
\* an account.
C21_AmountNotSpecified ==
    \A r \in TxRow :
        (/\ r.tx_type \in {"Deposit", "Withdrawal"}
         /\ is_none(r.amount)
         /\ Unlocked(r.client_id)) =>
            Call(r) = Return(engine, Err("AmountNotSpecified", r.tx_id))

\* one TxId is recorded and one is not, one client has an account and one has
\* none: all four records with no amount are refused with their TxId, and
\* the unused TxId can still be taken by a deposit afterwards
C21_Witness ==
    \E c, d \in ClientIds, t, u \in TxIds :
        LET dep == Call(Row("Deposit", c, t, None))
            wd == Call(Row("Withdrawal", d, u, None))
        IN  /\ c \in DOMAIN accounts /\ d \notin DOMAIN accounts
            /\ t \in DOMAIN transactions /\ u \notin DOMAIN transactions
            /\ dep = Return(engine, Err("AmountNotSpecified", t))
            /\ wd = Return(engine, Err("AmountNotSpecified", u))
            /\ Call(Row("Deposit", d, u, None)).result = Err("AmountNotSpecified", u)
            /\ Call(Row("Withdrawal", c, t, None)).result = Err("AmountNotSpecified", t)
            /\ process_row(wd.engine, Row("Deposit", d, u, Some(1))).result = Ok

\* C22: a dispute that returns Ok moves the stored amount of its transaction
\* from the client's available to its held, a resolve that returns Ok moves
\* it back from held to available, and both leave available + held as it
\* was; a chargeback that returns Ok takes the stored amount from held,
\* leaves available as it was and so lowers available + held by that amount.
C22_DisputeMovesStoredAmount ==
    \A r \in TxRow :
        r.tx_type \in {"Dispute", "Resolve", "Chargeback"} =>
            LET out == Call(r) IN
            out.result = Ok =>
                LET a == transactions[r.tx_id]
                    before == accounts[r.client_id]
                    after == out.engine.accounts[r.client_id]
                IN  CASE r.tx_type = "Dispute" ->
                             /\ after = AccountData(before.available - a, before.held + a)
                             /\ total(after) = total(before)
                      [] r.tx_type = "Resolve" ->
                             /\ after = AccountData(before.available + a, before.held - a)
                             /\ total(after) = total(before)
                      [] r.tx_type = "Chargeback" ->
                             /\ after = AccountData(before.available, before.held - a)
                             /\ total(after) = total(before) - a

\* an account with more funds than the disputed amount: the dispute holds
\* the amount, the resolve gives it back, a chargeback takes it for good
C22_Witness ==
    \E c \in ClientIds, t \in TxIds :
        LET d == Call(DisputeRow(c, t))
            rs == process_row(d.engine, ResolveRow(c, t))
            cb == process_row(d.engine, ChargebackRow(c, t))
        IN  /\ c \in DOMAIN accounts /\ t \in DOMAIN transactions
            /\ transactions[t] = MaxAmount
            /\ accounts[c] = AccountData(MaxAmount + 1, 0)
            /\ d.result = Ok /\ rs.result = Ok /\ cb.result = Ok
            /\ d.engine.accounts[c] = AccountData(1, MaxAmount)
            /\ rs.engine.accounts[c] = accounts[c]
            /\ cb.engine.accounts[c] = AccountData(1, 0)

\* C23: after a deposit of client c recorded TxId t, a dispute of t succeeds
\* only for c: the dispute of a client d other than c that has an account is
\* refused and moves no funds; and after c's own dispute of t, a resolve or
\* chargeback of t by such a client d is refused and moves no funds.
C23_OnlyOwnerDisputes ==
    \A c \in ClientIds, t \in TxIds, a \in Amounts :
        LET dep == Call(Row("Deposit", c, t, Some(a)))
            own == process_row(dep.engine, DisputeRow(c, t))
        IN  dep.result = Ok =>
                \A d \in (DOMAIN accounts) \ {c} :
                    LET dis == process_row(dep.engine, DisputeRow(d, t))
                        rs == process_row(own.engine, ResolveRow(d, t))
                        cb == process_row(own.engine, ChargebackRow(d, t))
                    IN  /\ dis.result # Ok /\ dis.engine.accounts = dep.engine.accounts
                        /\ rs.result # Ok /\ rs.engine.accounts = own.engine.accounts
                        /\ cb.result # Ok /\ cb.engine.accounts = own.engine.accounts

\* C24: after a chargeback of TxId t returned Ok, no resolve and no
\* chargeback of t returns Ok, for any client.
C24_ChargebackFinal ==
    \A c \in ClientIds, t \in TxIds :
        LET first == Call(ChargebackRow(c, t)) IN
        first.result = Ok =>
            \A d \in ClientIds :
                /\ process_row(first.engine, ResolveRow(d, t)).result # Ok
                /\ process_row(first.engine, ChargebackRow(d, t)).result # Ok

\* C25: a call changes the disputed flag of no transaction unless it is a
\* dispute or a resolve that returns Ok, and then of the transaction it names
\* only: a dispute that returns Ok finds the flag unset and sets it, a resolve
\* that returns Ok finds it set and unsets it. A transaction is therefore
\* disputed exactly when the last dispute or resolve of it that returned Ok
\* was a dispute, and a recorded transaction starts undisputed.
C25_FlagFollowsDisputeResolve ==
    /\ disputed_transactions \subseteq DOMAIN transactions
    /\ \A r \in TxRow :
           LET out == Call(r) IN
           /\ out.engine.disputed_transactions =
                  IF r.tx_type = "Dispute" /\ out.result = Ok
                  THEN disputed_transactions \cup {r.tx_id}
                  ELSE IF r.tx_type = "Resolve" /\ out.result = Ok
                  THEN disputed_transactions \ {r.tx_id}
                  ELSE disputed_transactions
           /\ out.result = Ok =>
                  /\ r.tx_type = "Dispute" => r.tx_id \notin disputed_transactions
                  /\ r.tx_type = "Resolve" => r.tx_id \in disputed_transactions

\* a transaction that was disputed and resolved is disputed again, and the
\* chargeback and the refused deposit that follow leave it disputed
C25_Witness ==
    \E c, e \in ClientIds, t \in TxIds :
        LET d1 == Call(DisputeRow(c, t))
            rs == process_row(d1.engine, ResolveRow(c, t))
            d2 == process_row(rs.engine, DisputeRow(c, t))
            cb == process_row(d2.engine, ChargebackRow(c, t))
            dep == process_row(cb.engine, Row("Deposit", e, t, Some(1)))
        IN  /\ d1.result = Ok /\ rs.result = Ok /\ d2.result = Ok /\ cb.result = Ok
            /\ t \notin disputed_transactions
            /\ t \in d1.engine.disputed_transactions
            /\ t \notin rs.engine.disputed_transactions
            /\ t \in d2.engine.disputed_transactions
            /\ t \in cb.engine.disputed_transactions
            /\ dep.result = Err("DuplicateTx", t)
            /\ t \in dep.engine.disputed_transactions
====
